---- MODULE Spec2Model ----
(***************************************************************************)
(* A model of elcellomata.py: an elementary cellular automaton (Wolfram    *)
(* code) is swept once into a grid and drawn on a Cairo context as lines,  *)
(* marker circles and a legend of the rule; the grid may also be printed.  *)
(*                                                                         *)
(* Python lists are sequences; a Python index k is the TLA+ index k + 1    *)
(* (PyAt, PySlice).  Every coordinate handed to Cairo is kept in eighths   *)
(* of a point, the finest unit the script's layout arithmetic produces     *)
(* (0.85 * 15 = 51/4, 2.5 * 51/4 = 255/8).                                 *)
(***************************************************************************)
EXTENDS Integers, Sequences, FiniteSets

VARIABLES
    rule,        \* args.rule
    args_print,  \* args.print
    RULES,       \* the rule table
    grid,        \* the grid of nodes, a list of rows
    pc,          \* the position in the script
    i,           \* row loop variable
    j,           \* column loop variable
    config,      \* argument of the last call of transition
    result,      \* what the last call of transition returned or raised
    vcond,       \* the values the condition of line 160 has taken
    crctx,       \* the drawing calls made on the Cairo context, in order
    stdout       \* the lines printed

vars == <<rule, args_print, RULES, grid, pc, i, j, config, result, vcond,
          crctx, stdout>>

\* ------------------------------------------------------------ constants

\* The grid sizes of the script are 100 and 120; the model sweeps a smaller grid.
GRID_WIDTH == 4
GRID_HEIGHT == 3
GRID_LEFT_RIGHT_PAD == 10
GRID_TOP_BOTTOM_PAD == 20
DRAW_WIDTH_STEP == 15
DRAW_HEIGHT_STEP == 15
DRAW_WIDTH == (GRID_WIDTH - 1 + GRID_LEFT_RIGHT_PAD * 2) * DRAW_WIDTH_STEP
DRAW_HEIGHT == (GRID_HEIGHT - 1 + GRID_TOP_BOTTOM_PAD * 2) * DRAW_HEIGHT_STEP

\* The largest RULE the argument parser accepts (choices=range(0, 256)).
MaxRule == 255

\* The marker circles' radius, in points.
MARKER_RADIUS == 4

\* Configurations handed to transition on its own: lists of up to
\* MaxConfigLen values in 0..MaxCellValue.
MaxConfigLen == 4
MaxCellValue == 2

\* ------------------------------------------------------- Python helpers

\* How a call ends: it returns a value or raises an exception.
Returns(v) == [returns |-> v]
Raises(e) == [raises |-> e]
Raised(r) == "raises" \in DOMAIN r
\* No call has been made yet.
NoCall == [nocall |-> TRUE]

Min(a, b) == IF a < b THEN a ELSE b
Max(a, b) == IF a > b THEN a ELSE b

\* s[k], with Python's negative indices.
PyAt(s, k) == IF k < 0 THEN s[Len(s) + k + 1] ELSE s[k + 1]

\* The bound of a slice, clamped as Python clamps it.
PyClamp(s, k) == IF k < 0 THEN Max(Len(s) + k, 0) ELSE Min(k, Len(s))

\* s[start:stop]
PySlice(s, start, stop) == SubSeq(s, PyClamp(s, start) + 1, PyClamp(s, stop))

\* s with s[k] = v
PySet(s, k, v) == [s EXCEPT ![k + 1] = v]

\* sum(s)
RECURSIVE PySum(_)
PySum(s) == IF s = <<>> THEN 0 ELSE Head(s) + PySum(Tail(s))

\* bin(n)[2:] for n >= 0, a list of the characters "0" and "1".
RECURSIVE BinDigits(_)
BinDigits(n) ==
    IF n < 2 THEN <<IF n = 1 THEN "1" ELSE "0">>
    ELSE BinDigits(n \div 2) \o <<IF n % 2 = 1 THEN "1" ELSE "0">>

\* s.zfill(width), for a string without sign.
RECURSIVE zfill(_, _)
zfill(s, width) == IF Len(s) >= width THEN s ELSE zfill(<<"0">> \o s, width)

\* int(c) for a character c
IntOfChar(c) == IF c = "1" THEN 1 ELSE 0

\* a & b for a, b >= 0
RECURSIVE BitAnd(_, _)
BitAnd(a, b) ==
    IF a = 0 \/ b = 0 THEN 0
    ELSE (a % 2) * (b % 2) + 2 * BitAnd(a \div 2, b \div 2)

\* 1 << k
RECURSIVE ShiftOne(_)
ShiftOne(k) == IF k = 0 THEN 1 ELSE 2 * ShiftOne(k - 1)

\* The truth value of an int used as a condition.
Truthy(x) == x # 0

\* ----------------------------------------------------------- functions

\* RulesOf without the zfill: the leading zero bits are lost.
RulesOfNoFill(r) ==
    LET s == BinDigits(r)
    IN  [k \in 1..Len(s) |-> IntOfChar(s[k])]

\* RULES = [int(c) for c in bin(args.rule)[2:].zfill(8)]
RulesOf(r) ==
    LET s == zfill(BinDigits(r), 8)
    IN  [k \in 1..Len(s) |-> IntOfChar(s[k])]

\* transition with the entries of (1,1,0) and (1,0,1) exchanged.
transitionSwapped(cfg, rules) ==
    IF cfg = <<1, 1, 1>> THEN Returns(PyAt(rules, 0))
    ELSE IF cfg = <<1, 1, 0>> THEN Returns(PyAt(rules, 2))
    ELSE IF cfg = <<1, 0, 1>> THEN Returns(PyAt(rules, 1))
    ELSE IF cfg = <<1, 0, 0>> THEN Returns(PyAt(rules, 3))
    ELSE IF cfg = <<0, 1, 1>> THEN Returns(PyAt(rules, 4))
    ELSE IF cfg = <<0, 1, 0>> THEN Returns(PyAt(rules, 5))
    ELSE IF cfg = <<0, 0, 1>> THEN Returns(PyAt(rules, 6))
    ELSE IF cfg = <<0, 0, 0>> THEN Returns(PyAt(rules, 7))
    ELSE Raises("ValueError")

\* transition whose chain ends in a plain else: any other list is taken
\* for (0,0,0).
transitionDefault(cfg, rules) ==
    IF cfg = <<1, 1, 1>> THEN Returns(PyAt(rules, 0))
    ELSE IF cfg = <<1, 1, 0>> THEN Returns(PyAt(rules, 1))
    ELSE IF cfg = <<1, 0, 1>> THEN Returns(PyAt(rules, 2))
    ELSE IF cfg = <<1, 0, 0>> THEN Returns(PyAt(rules, 3))
    ELSE IF cfg = <<0, 1, 1>> THEN Returns(PyAt(rules, 4))
    ELSE IF cfg = <<0, 1, 0>> THEN Returns(PyAt(rules, 5))
    ELSE IF cfg = <<0, 0, 1>> THEN Returns(PyAt(rules, 6))
    ELSE Returns(PyAt(rules, 7))

\* transition(config, rules): the if/elif chain, then the raise.
transition(cfg, rules) ==
    IF cfg = <<1, 1, 1>> THEN Returns(PyAt(rules, 0))
    ELSE IF cfg = <<1, 1, 0>> THEN Returns(PyAt(rules, 1))
    ELSE IF cfg = <<1, 0, 1>> THEN Returns(PyAt(rules, 2))
    ELSE IF cfg = <<1, 0, 0>> THEN Returns(PyAt(rules, 3))
    ELSE IF cfg = <<0, 1, 1>> THEN Returns(PyAt(rules, 4))
    ELSE IF cfg = <<0, 1, 0>> THEN Returns(PyAt(rules, 5))
    ELSE IF cfg = <<0, 0, 1>> THEN Returns(PyAt(rules, 6))
    ELSE IF cfg = <<0, 0, 0>> THEN Returns(PyAt(rules, 7))
    ELSE Raises("ValueError")

\* The drawing call draw_circle makes: an arc, filled when fill is true.
draw_circle(x, y, radius, fill) ==
    [op |-> "circle", x |-> x, y |-> y, radius |-> radius, fill |-> Truthy(fill)]

\* The drawing call draw_line makes.
draw_line(from_x, from_y, to_x, to_y) ==
    [op |-> "line", from_x |-> from_x, from_y |-> from_y,
     to_x |-> to_x, to_y |-> to_y]

\* One printed line of print_grid: "x" stands for the live glyph.
RECURSIVE RowText(_)
RowText(row) ==
    IF row = <<>> THEN <<>>
    ELSE <<IF Truthy(Head(row)) THEN "x" ELSE ".">> \o RowText(Tail(row))

\* Points to eighths of a point.
Pt(x) == 8 * x

\* The position of the node of column jj and of row ii.
NodeX(jj) == Pt((jj + GRID_LEFT_RIGHT_PAD) * DRAW_WIDTH_STEP)
NodeY(ii) == Pt((ii + GRID_TOP_BOTTOM_PAD) * DRAW_HEIGHT_STEP)

\* ------------------------------------------------------- rule pattern

\* round(n / d) for n >= 0, d > 0: Python rounds a tie to the even integer.
RoundDiv(n, d) ==
    LET q == n \div d
        r == n % d
    IN  IF 2 * r < d THEN q
        ELSE IF 2 * r > d THEN q + 1
        ELSE IF q % 2 = 0 THEN q ELSE q + 1

\* RULE_PATTERN_SCALE * DRAW_WIDTH_STEP, with RULE_PATTERN_SCALE = 0.85
RULE_PATTERN_RADIUS == (85 * Pt(DRAW_WIDTH_STEP)) \div 100
RULE_PATTERN_SPACE == 10 * RULE_PATTERN_RADIUS
\* 2.5 * RULE_PATTERN_RADIUS
RULE_PATTERN_CIRCLE_PAD == (25 * RULE_PATTERN_RADIUS) \div 10
\* In node steps, rounded.
RULE_PATTERN_WIDTH ==
    RoundDiv(7 * RULE_PATTERN_SPACE + 2 * RULE_PATTERN_CIRCLE_PAD
             + RULE_PATTERN_RADIUS, Pt(DRAW_WIDTH_STEP))
RULE_PATTERN_X_POS ==
    ((GRID_WIDTH + 2 * GRID_LEFT_RIGHT_PAD - RULE_PATTERN_WIDTH)
     * Pt(DRAW_WIDTH_STEP)) \div 2
\* DRAW_HEIGHT - GRID_TOP_BOTTOM_PAD * 0.7 * DRAW_HEIGHT_STEP
RULE_PATTERN_Y_POS ==
    Pt(DRAW_HEIGHT) - (GRID_TOP_BOTTOM_PAD * 7 * Pt(DRAW_HEIGHT_STEP)) \div 10

\* RulePattern with the three masks in the opposite order.
RulePatternReversedBits(jj, r) ==
    << draw_circle(RULE_PATTERN_X_POS + jj * RULE_PATTERN_SPACE,
                   RULE_PATTERN_Y_POS, RULE_PATTERN_RADIUS,
                   BitAnd(7 - jj, ShiftOne(0))),
       draw_circle(RULE_PATTERN_X_POS + jj * RULE_PATTERN_SPACE
                   + RULE_PATTERN_CIRCLE_PAD,
                   RULE_PATTERN_Y_POS, RULE_PATTERN_RADIUS,
                   BitAnd(7 - jj, ShiftOne(1))),
       draw_circle(RULE_PATTERN_X_POS + jj * RULE_PATTERN_SPACE
                   + 2 * RULE_PATTERN_CIRCLE_PAD,
                   RULE_PATTERN_Y_POS, RULE_PATTERN_RADIUS,
                   BitAnd(7 - jj, ShiftOne(2))),
       draw_circle(RULE_PATTERN_X_POS + jj * RULE_PATTERN_SPACE
                   + RULE_PATTERN_CIRCLE_PAD,
                   RULE_PATTERN_Y_POS + RULE_PATTERN_CIRCLE_PAD,
                   RULE_PATTERN_RADIUS, r) >>

\* The four circles drawn for entry jj of the rule table, whose value is r.
RulePattern(jj, r) ==
    << draw_circle(RULE_PATTERN_X_POS + jj * RULE_PATTERN_SPACE,
                   RULE_PATTERN_Y_POS, RULE_PATTERN_RADIUS,
                   BitAnd(7 - jj, ShiftOne(2))),
       draw_circle(RULE_PATTERN_X_POS + jj * RULE_PATTERN_SPACE
                   + RULE_PATTERN_CIRCLE_PAD,
                   RULE_PATTERN_Y_POS, RULE_PATTERN_RADIUS,
                   BitAnd(7 - jj, ShiftOne(1))),
       draw_circle(RULE_PATTERN_X_POS + jj * RULE_PATTERN_SPACE
                   + 2 * RULE_PATTERN_CIRCLE_PAD,
                   RULE_PATTERN_Y_POS, RULE_PATTERN_RADIUS,
                   BitAnd(7 - jj, ShiftOne(0))),
       draw_circle(RULE_PATTERN_X_POS + jj * RULE_PATTERN_SPACE
                   + RULE_PATTERN_CIRCLE_PAD,
                   RULE_PATTERN_Y_POS + RULE_PATTERN_CIRCLE_PAD,
                   RULE_PATTERN_RADIUS, r) >>

\* ------------------------------------------------------------ the sweep

\* grid[ii][jj]
Cell(g, ii, jj) == PyAt(PyAt(g, ii), jj)

\* NeighborConfig that repeats the edge cell instead of wrapping at column 0.
NeighborConfigClamped(row, jj) ==
    IF jj = 0 THEN <<PyAt(row, 0)>> \o PySlice(row, 0, jj + 2)
    ELSE IF jj = Len(row) - 1 THEN PySlice(row, jj - 1, Len(row)) \o <<PyAt(row, 0)>>
    ELSE PySlice(row, jj - 1, jj + 2)

\* The list handed to transition for column jj of the row.
NeighborConfig(row, jj) ==
    IF jj = 0 THEN <<PyAt(row, -1)>> \o PySlice(row, 0, jj + 2)
    ELSE IF jj = Len(row) - 1 THEN PySlice(row, jj - 1, Len(row)) \o <<PyAt(row, 0)>>
    ELSE PySlice(row, jj - 1, jj + 2)

\* LinesFromPreviousRow without the test of j: at column 0, grid[i][j - 1]
\* is the last cell of the row.
LinesWrapLeft(g, ii, jj) ==
    (IF Truthy(Cell(g, ii, jj - 1))
     THEN <<draw_line(NodeX(jj - 1), NodeY(ii), NodeX(jj), NodeY(ii + 1))>>
     ELSE <<>>)
    \o
    (IF Truthy(Cell(g, ii, jj))
     THEN <<draw_line(NodeX(jj), NodeY(ii), NodeX(jj), NodeY(ii + 1))>>
     ELSE <<>>)
    \o
    (IF jj < Len(PyAt(g, ii)) - 1 /\ Truthy(Cell(g, ii, jj + 1))
     THEN <<draw_line(NodeX(jj + 1), NodeY(ii), NodeX(jj), NodeY(ii + 1))>>
     ELSE <<>>)

\* LinesFromPreviousRow without the test of grid[i][j]: the vertical line
\* is always drawn.
LinesAlwaysVertical(g, ii, jj) ==
    (IF Truthy(jj) /\ Truthy(Cell(g, ii, jj - 1))
     THEN <<draw_line(NodeX(jj - 1), NodeY(ii), NodeX(jj), NodeY(ii + 1))>>
     ELSE <<>>)
    \o
    <<draw_line(NodeX(jj), NodeY(ii), NodeX(jj), NodeY(ii + 1))>>
    \o
    (IF jj < Len(PyAt(g, ii)) - 1 /\ Truthy(Cell(g, ii, jj + 1))
     THEN <<draw_line(NodeX(jj + 1), NodeY(ii), NodeX(jj), NodeY(ii + 1))>>
     ELSE <<>>)

\* LinesFromPreviousRow that also marks the node, in the sweep, when one
\* line was drawn to it.
LinesThenMarker(g, ii, jj) ==
    LET drawn ==
            (IF Truthy(jj) /\ Truthy(Cell(g, ii, jj - 1))
             THEN <<draw_line(NodeX(jj - 1), NodeY(ii), NodeX(jj), NodeY(ii + 1))>>
             ELSE <<>>)
            \o
            (IF Truthy(Cell(g, ii, jj))
             THEN <<draw_line(NodeX(jj), NodeY(ii), NodeX(jj), NodeY(ii + 1))>>
             ELSE <<>>)
            \o
            (IF jj < Len(PyAt(g, ii)) - 1 /\ Truthy(Cell(g, ii, jj + 1))
             THEN <<draw_line(NodeX(jj + 1), NodeY(ii), NodeX(jj), NodeY(ii + 1))>>
             ELSE <<>>)
    IN  IF Len(drawn) = 1
        THEN drawn \o <<draw_circle(NodeX(jj), NodeY(ii + 1), Pt(MARKER_RADIUS), 1)>>
        ELSE drawn

\* The lines drawn to node (ii + 1, jj) from the neighbours in row ii.
LinesFromPreviousRow(g, ii, jj) ==
    (IF Truthy(jj) /\ Truthy(Cell(g, ii, jj - 1))
     THEN <<draw_line(NodeX(jj - 1), NodeY(ii), NodeX(jj), NodeY(ii + 1))>>
     ELSE <<>>)
    \o
    (IF Truthy(Cell(g, ii, jj))
     THEN <<draw_line(NodeX(jj), NodeY(ii), NodeX(jj), NodeY(ii + 1))>>
     ELSE <<>>)
    \o
    (IF jj < Len(PyAt(g, ii)) - 1 /\ Truthy(Cell(g, ii, jj + 1))
     THEN <<draw_line(NodeX(jj + 1), NodeY(ii), NodeX(jj), NodeY(ii + 1))>>
     ELSE <<>>)

\* MarkerCount without the max: at column 0 the slice starts at -1.
MarkerCountNoClamp(g, ii, jj) ==
    LET start_slice == jj - 1
        stop_slice == Min(jj + 2, Len(PyAt(g, ii)))
    IN  IF ii = 0
        THEN PySum(PySlice(PyAt(g, ii + 1), start_slice, stop_slice))
        ELSE IF ii = Len(g) - 1
        THEN PySum(PySlice(PyAt(g, ii - 1), start_slice, stop_slice))
        ELSE PySum(PySlice(PyAt(g, ii - 1), start_slice, stop_slice))
             + PySum(PySlice(PyAt(g, ii + 1), start_slice, stop_slice))

\* MarkerCount that looks at the row above alone in the interior rows.
MarkerCountOneRow(g, ii, jj) ==
    LET start_slice == Max(0, jj - 1)
        stop_slice == Min(jj + 2, Len(PyAt(g, ii)))
    IN  IF ii = 0
        THEN PySum(PySlice(PyAt(g, ii + 1), start_slice, stop_slice))
        ELSE PySum(PySlice(PyAt(g, ii - 1), start_slice, stop_slice))

\* The sum the marker pass compares with 1 for cell (ii, jj).
MarkerCount(g, ii, jj) ==
    LET start_slice == Max(0, jj - 1)
        stop_slice == Min(jj + 2, Len(PyAt(g, ii)))
    IN  IF ii = 0
        THEN PySum(PySlice(PyAt(g, ii + 1), start_slice, stop_slice))
        ELSE IF ii = Len(g) - 1
        THEN PySum(PySlice(PyAt(g, ii - 1), start_slice, stop_slice))
        ELSE PySum(PySlice(PyAt(g, ii - 1), start_slice, stop_slice))
             + PySum(PySlice(PyAt(g, ii + 1), start_slice, stop_slice))

\* The circle the marker pass draws for cell (ii, jj), if any.
MarkerFor(g, ii, jj) ==
    IF ~Truthy(Cell(g, ii, jj)) THEN <<>>
    ELSE IF MarkerCount(g, ii, jj) = 1
    THEN <<draw_circle(NodeX(jj), NodeY(ii), Pt(MARKER_RADIUS), 1)>>
    ELSE <<>>

\* The pass that follows the rule pattern.
AfterLegend == IF args_print THEN "print" ELSE "done"

\* ---------------------------------------------------------------- Init

ZeroRow == [k \in 1..GRID_WIDTH |-> 0]
RandomRows == [1..GRID_WIDTH -> {0, 1}]

\* The state when the sweep starts: the arguments parsed, the rule table built,
\* the canvas cleared, row 0 drawn at random and every other row zero.
Init ==
    /\ rule \in 0..MaxRule
    /\ args_print \in BOOLEAN
    /\ RULES = RulesOf(rule)
    /\ \E row0 \in RandomRows :
           grid = [k \in 1..GRID_HEIGHT |-> IF k = 1 THEN row0 ELSE ZeroRow]
    /\ pc = "gen"
    /\ i = 0
    /\ j = 0
    /\ config = <<>>
    /\ result = NoCall
    /\ vcond = {}
    /\ crctx = <<>>
    /\ stdout = <<>>

\* ------------------------------------------------------------- actions

\* One iteration of the inner loop of the sweep: the cell (i + 1, j) is
\* computed and, when it is live, the lines to it are drawn.
GenStep ==
    /\ pc = "gen"
    /\ LET cfg == NeighborConfig(PyAt(grid, i), j)
           r == transition(cfg, RULES)
       IN  /\ config' = cfg
           /\ result' = r
           /\ IF Raised(r)
              THEN /\ pc' = "aborted"
                   /\ UNCHANGED <<grid, i, j, vcond, crctx>>
              ELSE LET g == PySet(grid, i + 1, PySet(PyAt(grid, i + 1), j, r.returns))
                   IN  /\ grid' = g
                       /\ IF ~Truthy(Cell(g, i + 1, j))
                          THEN UNCHANGED <<vcond, crctx>>
                          ELSE /\ crctx' = crctx \o LinesFromPreviousRow(g, i, j)
                               /\ vcond' = vcond \cup
                                    {[i |-> i, j |-> j, value |-> Cell(g, i, j)]}
                       /\ IF j + 1 < Len(PyAt(grid, i))
                          THEN /\ j' = j + 1
                               /\ UNCHANGED <<i, pc>>
                          ELSE IF i + 1 < Len(grid) - 1
                          THEN /\ i' = i + 1
                               /\ j' = 0
                               /\ UNCHANGED pc
                          ELSE /\ pc' = "mark"
                               /\ i' = 0
                               /\ j' = 0
    /\ UNCHANGED <<rule, args_print, RULES, stdout>>

\* One iteration of the inner loop of the marker pass.
MarkStep ==
    /\ pc = "mark"
    /\ crctx' = crctx \o MarkerFor(grid, i, j)
    /\ IF j + 1 < Len(PyAt(grid, i))
       THEN /\ j' = j + 1
            /\ UNCHANGED <<i, pc>>
       ELSE IF i + 1 < Len(grid)
       THEN /\ i' = i + 1
            /\ j' = 0
            /\ UNCHANGED pc
       ELSE /\ pc' = "legend"
            /\ i' = 0
            /\ j' = 0
    /\ UNCHANGED <<rule, args_print, RULES, grid, config, result, vcond, stdout>>

\* One iteration of the rule pattern loop.
LegendStep ==
    /\ pc = "legend"
    /\ crctx' = crctx \o RulePattern(j, PyAt(RULES, j))
    /\ IF j + 1 < Len(RULES)
       THEN /\ j' = j + 1
            /\ UNCHANGED pc
       ELSE /\ pc' = AfterLegend
            /\ j' = 0
    /\ UNCHANGED <<rule, args_print, RULES, grid, i, config, result, vcond, stdout>>

\* One row of print_grid.
PrintStep ==
    /\ pc = "print"
    /\ stdout' = Append(stdout, RowText(PyAt(grid, i)))
    /\ IF i + 1 < Len(grid)
       THEN /\ i' = i + 1
            /\ UNCHANGED pc
       ELSE /\ pc' = "done"
            /\ i' = 0
    /\ UNCHANGED <<rule, args_print, RULES, grid, j, config, result, vcond, crctx>>

Next == GenStep \/ MarkStep \/ LegendStep \/ PrintStep

Spec == Init /\ [][Next]_vars

\* -------------------------------------------- transition on its own

\* Every list of at most MaxConfigLen values in 0..MaxCellValue.
Configs == UNION {[1..n -> 0..MaxCellValue] : n \in 0..MaxConfigLen}

\* transition is about to be called with an arbitrary list, for the cell
\* (1, 0) of a grid that is still all zero.
InitT ==
    /\ rule \in 0..MaxRule
    /\ args_print = FALSE
    /\ RULES = RulesOf(rule)
    /\ grid = [k \in 1..GRID_HEIGHT |-> ZeroRow]
    /\ pc = "call"
    /\ i = 0
    /\ j = 0
    /\ config \in Configs
    /\ result = NoCall
    /\ vcond = {}
    /\ crctx = <<>>
    /\ stdout = <<>>

\* grid[i + 1][j] = transition(config, RULES): a raise leaves the cell alone.
TransitionCall ==
    /\ pc = "call"
    /\ LET r == transition(config, RULES)
       IN  /\ result' = r
           /\ IF Raised(r)
              THEN /\ pc' = "aborted"
                   /\ UNCHANGED grid
              ELSE /\ pc' = "returned"
                   /\ grid' = PySet(grid, i + 1, PySet(PyAt(grid, i + 1), j, r.returns))
    /\ UNCHANGED <<rule, args_print, RULES, i, j, config, vcond, crctx, stdout>>

NextT == TransitionCall

SpecT == InitT /\ [][NextT]_vars

\* ------------------------------------------------- vocabulary of the properties

Rows == 0..(GRID_HEIGHT - 1)
Cols == 0..(GRID_WIDTH - 1)

\* Bit k of n.
Bit(n, k) == (n \div ShiftOne(k)) % 2

\* The eight lists transition accepts.
ValidTriples == [1..3 -> {0, 1}]

\* The sweep is over; the script has run to its end.
SweepDone == pc \in {"mark", "legend", "print", "done"}
Finished == pc = "done"

\* The drawing calls made so far, as a set.
Ops == {crctx[n] : n \in 1..Len(crctx)}
IsLine(o) == o.op = "line"
IsCircle(o) == o.op = "circle"

\* A segment joins node (ii, k) of one row and node (ii + 1, jj) of the next.
SegmentIn(ops, ii, k, jj) ==
    \/ draw_line(NodeX(k), NodeY(ii), NodeX(jj), NodeY(ii + 1)) \in ops
    \/ draw_line(NodeX(jj), NodeY(ii + 1), NodeX(k), NodeY(ii)) \in ops
SegmentDrawn(ii, k, jj) == SegmentIn(Ops, ii, k, jj)

\* A line call has node (ii, jj) as an endpoint.
Touches(o, ii, jj) ==
    /\ IsLine(o)
    /\ \/ (o.from_x = NodeX(jj) /\ o.from_y = NodeY(ii))
       \/ (o.to_x = NodeX(jj) /\ o.to_y = NodeY(ii))

\* The number of line calls with node (ii, jj) as an endpoint.
Incident(ii, jj) == Cardinality({n \in 1..Len(crctx) : Touches(crctx[n], ii, jj)})

\* A marker circle is drawn at node (ii, jj).
MarkerIn(ops, ii, jj) ==
    \E o \in ops : /\ IsCircle(o)
                   /\ o.x = NodeX(jj) /\ o.y = NodeY(ii)
                   /\ o.radius = Pt(MARKER_RADIUS) /\ o.fill
MarkerDrawn(ii, jj) == MarkerIn(Ops, ii, jj)

\* The rows next to row ii and the columns of the window around column jj.
AdjacentRows(ii) == {ii - 1, ii + 1} \cap Rows
Window(jj) == {jj - 1, jj, jj + 1} \cap Cols
LiveAround(ii, jj) ==
    {c \in AdjacentRows(ii) \X Window(jj) : Cell(grid, c[1], c[2]) = 1}

\* ------------------------------------------------------------------ C1
\* C1: after the sweep every cell below row 0 is the rule-table entry selected
\* by the three cells above it, the row being a ring: column 0 takes the last
\* column as its left neighbour, the last column takes column 0 as its right.
C1_RingSweep ==
    SweepDone =>
        \A ii \in 0..(GRID_HEIGHT - 2) : \A jj \in Cols :
            LET a == Cell(grid, ii, (jj - 1 + GRID_WIDTH) % GRID_WIDTH)
                b == Cell(grid, ii, jj)
                c == Cell(grid, ii, (jj + 1) % GRID_WIDTH)
            IN  Cell(grid, ii + 1, jj) = PyAt(RULES, 7 - (4 * a + 2 * b + c))

\* Rule 16 maps only (1,0,0) to 1: column 0 is live below a row whose only
\* live cell is the last one.
C1_Witness ==
    /\ SweepDone
    /\ rule = 16
    /\ PyAt(grid, 0) = [k \in 1..GRID_WIDTH |-> IF k = GRID_WIDTH THEN 1 ELSE 0]
    /\ Cell(grid, 1, 0) = 1

\* ------------------------------------------------------------------ C2
\* C2: for each of the 8 binary triples (a,b,c) transition returns the entry
\* 7 - (4a + 2b + c) of the rule table, and raises nothing.
C2_TransitionTable ==
    (pc # "call" /\ config \in ValidTriples) =>
        result = Returns(PyAt(RULES, 7 - (4 * config[1] + 2 * config[2] + config[3])))

C2_Witness ==
    /\ pc = "returned"
    /\ config = <<1, 1, 0>>
    /\ rule = 64
    /\ result = Returns(1)

\* ------------------------------------------------------------------ C3
\* C3: the rule table has 8 entries, each 0 or 1, entry k being bit 7 - k of
\* the rule number.
C3_RuleTable ==
    /\ Len(RULES) = 8
    /\ \A k \in 0..7 : PyAt(RULES, k) \in {0, 1} /\ PyAt(RULES, k) = Bit(rule, 7 - k)

C3_Witness == rule = 170 /\ RULES = <<1, 0, 1, 0, 1, 0, 1, 0>> /\ SweepDone

\* ------------------------------------------------------------------ C4
\* C4: called with a list that is not one of the 8 binary triples, transition
\* raises instead of returning a bit: the script stops and the cell is not
\* assigned.
C4_InvalidConfigRaises ==
    (pc # "call" /\ config \notin ValidTriples) =>
        /\ result = Raises("ValueError")
        /\ pc = "aborted"
        /\ grid = [k \in 1..GRID_HEIGHT |-> ZeroRow]

C4_Witness ==
    /\ pc = "aborted"
    /\ config = <<1, 1, 2>>
    /\ rule = MaxRule

\* ------------------------------------------------------------------ C5
\* C5: in the finished drawing a segment joins node (i,k) and node (i+1,j)
\* exactly when both cells are live, k is a column and |k - j| <= 1; the
\* diagonals do not wrap, and no other line is drawn.
C5_Segments ==
    Finished =>
        LET ops == Ops
        IN  /\ \A ii \in 0..(GRID_HEIGHT - 2) : \A jj \in Cols : \A k \in -1..GRID_WIDTH :
                   SegmentIn(ops, ii, k, jj) <=>
                       /\ k \in Cols
                       /\ Cell(grid, ii, k) = 1
                       /\ Cell(grid, ii + 1, jj) = 1
                       /\ k - jj \in {-1, 0, 1}
            /\ \A o \in ops : IsLine(o) =>
                   \E ii \in 0..(GRID_HEIGHT - 2) : \E jj \in Cols : \E k \in Cols :
                       o = draw_line(NodeX(k), NodeY(ii), NodeX(jj), NodeY(ii + 1))

\* Both ends of rows 0 and 1 are live: the ring would join them, the drawing
\* does not, while the verticals at both ends are drawn.
C5_Witness ==
    /\ Finished
    /\ Cell(grid, 0, 0) = 1 /\ Cell(grid, 0, GRID_WIDTH - 1) = 1
    /\ Cell(grid, 1, 0) = 1 /\ Cell(grid, 1, GRID_WIDTH - 1) = 1
    /\ Cell(grid, 0, 1) = 1
    /\ SegmentDrawn(0, 0, 0)
    /\ SegmentDrawn(0, 1, 0)
    /\ ~SegmentDrawn(0, GRID_WIDTH - 1, 0)

\* ------------------------------------------------------------------ C6
\* C6 as claimed: whenever the line rules are applied, the cell directly
\* above is live, so the condition of the vertical line is never false.
C6_VerticalAlwaysTaken == \A r \in vcond : r.value = 1

\* C6 as amended: the line rules are applied for a live cell (i+1,j); the
\* cell above it, (i,j), may be live or dead, and the vertical line from
\* (i,j) to (i+1,j) is drawn exactly when that cell is live.
C6_VerticalIffAboveLive ==
    LET ops == Ops
    IN  \A r \in vcond :
            /\ Cell(grid, r.i + 1, r.j) = 1
            /\ r.value = Cell(grid, r.i, r.j)
            /\ SegmentIn(ops, r.i, r.j, r.j) <=> r.value = 1

\* The line rules were applied below a dead cell and below a live one.
C6_Witness ==
    /\ \E r \in vcond : r.value = 0 /\ ~SegmentDrawn(r.i, r.j, r.j)
    /\ \E r \in vcond : r.value = 1 /\ SegmentDrawn(r.i, r.j, r.j)

\* ------------------------------------------------------------------ C7
\* C7: a marker is drawn at (i,j) exactly when the cell is live and exactly one
\* cell is live in columns max(0,j-1)..min(W-1,j+1) of the adjacent rows: row
\* 1 for row 0, row H-2 for row H-1, both neighbours otherwise.
C7_Markers ==
    Finished =>
        LET ops == Ops
        IN  \A ii \in Rows : \A jj \in Cols :
                MarkerIn(ops, ii, jj) <=>
                    (Cell(grid, ii, jj) = 1 /\ Cardinality(LiveAround(ii, jj)) = 1)

\* A marker in row 0, one in an interior row, and a live cell without one.
C7_Witness ==
    /\ Finished
    /\ \E jj \in Cols : MarkerDrawn(0, jj)
    /\ \E jj \in Cols : MarkerDrawn(1, jj) /\ Cell(grid, 0, jj) = 0
    /\ \E jj \in Cols : MarkerDrawn(GRID_HEIGHT - 1, jj)
    /\ \E ii \in Rows : \E jj \in Cols :
           Cell(grid, ii, jj) = 1 /\ ~MarkerDrawn(ii, jj)

\* ------------------------------------------------------------------ C8
\* The line calls and the circle calls among drawing calls.
LineCalls(s) == SelectSeq(s, IsLine)
CircleCalls(s) == SelectSeq(s, IsCircle)

\* C8 as claimed: every write of a grid cell comes before the first drawing
\* call, so the grid never changes once something is drawn; and the marker
\* pass starts after the last line.
C8_GridCompleteBeforeDrawing ==
    [][/\ crctx # <<>> => grid' = grid
       /\ SweepDone => LineCalls(crctx') = LineCalls(crctx)]_vars

\* C8 as amended: the sweep writes a cell and draws the lines to it in the
\* same iteration, so writes and line drawing alternate; the lines of an
\* iteration end at the node just written, which is live, and no circle is
\* drawn in the sweep.  Once the sweep is over the grid never changes and no
\* line is drawn: the marker pass, the rule pattern and the printing read a
\* complete grid.
C8_GridCompleteBeforeMarkers ==
    [][/\ SweepDone => (grid' = grid /\ LineCalls(crctx') = LineCalls(crctx))
       /\ pc = "gen" =>
              /\ CircleCalls(crctx') = <<>>
              /\ \A n \in (Len(crctx) + 1)..Len(crctx') :
                     /\ crctx'[n].to_x = NodeX(j) /\ crctx'[n].to_y = NodeY(i + 1)
                     /\ Cell(grid', i + 1, j) = 1
              /\ \A ii \in Rows : \A jj \in Cols :
                     Cell(grid', ii, jj) # Cell(grid, ii, jj) => (ii = i + 1 /\ jj = j)
      ]_vars

\* The script has printed a grid whose drawing has lines and markers, and a
\* cell of the last row was written after the first line was drawn.
C8_Witness ==
    /\ Finished
    /\ stdout # <<>>
    /\ LineCalls(crctx) # <<>>
    /\ \E jj \in Cols : MarkerDrawn(GRID_HEIGHT - 1, jj)
    /\ \E jj \in Cols : SegmentDrawn(0, jj, jj) /\ Cell(grid, GRID_HEIGHT - 1, jj) = 1

\* ------------------------------------------------------------------ C9
\* The circles of the rule pattern among drawing calls, and the upper ones
\* among them, which are the inputs.
LegendCircles(ops) == {o \in ops : IsCircle(o) /\ o.radius = RULE_PATTERN_RADIUS}
UpperCircles(L) == {o \in L : \A q \in L : o.y <= q.y}

\* The number of circles of S to the left of o.
LeftOf(S, o) == Cardinality({q \in S : q.x < o.x})

\* The rule table whose only 1 is entry k.
OneHot(k) == [n \in 1..8 |-> IF n = k + 1 THEN 1 ELSE 0]

\* C9: in the legend, entry j (counted from the left) shows three input
\* circles filled as the triple (a,b,c) that transition maps to entry j, and
\* below the middle one an output circle filled exactly when entry j is 1.
C9_Legend ==
    Finished =>
        LET inputs == UpperCircles(LegendCircles(Ops))
            outputs == LegendCircles(Ops) \ inputs
        IN  /\ Cardinality(inputs) = 24
            /\ Cardinality(outputs) = 8
            /\ \A o \in inputs :
                   LET n == LeftOf(inputs, o)
                   IN  /\ \A q \in inputs : q.x = o.x => q = o
                       /\ \A t \in ValidTriples :
                              transition(t, OneHot(n \div 3)) = Returns(1) =>
                                  (o.fill <=> t[(n % 3) + 1] = 1)
            /\ \A d \in outputs :
                   LET m == LeftOf(outputs, d)
                   IN  /\ d.fill <=> PyAt(RULES, m) = 1
                       /\ \E o \in inputs : /\ o.x = d.x /\ o.y < d.y
                                            /\ LeftOf(inputs, o) = 3 * m + 1

\* The n-th circle of S from the left, n counted from 0.
FromLeft(S, n) == CHOOSE o \in S : LeftOf(S, o) = n

\* Rule 30: the outputs of (1,0,0), (0,1,1), (0,1,0) and (0,0,1) are filled.
C9_Witness ==
    /\ Finished
    /\ rule = 30
    /\ LET inputs == UpperCircles(LegendCircles(Ops))
           outputs == LegendCircles(Ops) \ inputs
       IN  /\ FromLeft(outputs, 3).fill
           /\ ~FromLeft(outputs, 2).fill
           /\ FromLeft(inputs, 9).fill
           /\ ~FromLeft(inputs, 10).fill

\* ----------------------------------------------------------------- C10
\* C10: for a live cell the sum the marker pass computes is the number of
\* drawn segments that end at its node, so the cell has a marker exactly when
\* one segment ends there.
C10_MarkerIffOneSegment ==
    Finished =>
        LET ops == Ops
        IN  \A ii \in Rows : \A jj \in Cols :
                Cell(grid, ii, jj) = 1 =>
                    /\ MarkerCount(grid, ii, jj) = Incident(ii, jj)
                    /\ MarkerIn(ops, ii, jj) <=> Incident(ii, jj) = 1

\* A marked interior cell with its one segment, and an unmarked live cell
\* with several.
C10_Witness ==
    /\ Finished
    /\ \E jj \in Cols : /\ Cell(grid, 1, jj) = 1
                        /\ MarkerDrawn(1, jj)
                        /\ Incident(1, jj) = 1
    /\ \E jj \in Cols : /\ Cell(grid, 1, jj) = 1
                        /\ ~MarkerDrawn(1, jj)
                        /\ Incident(1, jj) > 1

====
